---- MODULE Spec2Model ----
(***************************************************************************)
(* The batch job queue of the remove-background page                       *)
(* (RemoveBackgroundPage): the React state of the component, its event     *)
(* handlers, and the asynchronous loop of handleProcessQueue with its two  *)
(* suspension points per item (await fetch, await response body).          *)
(*                                                                         *)
(* Atomicity follows JavaScript's run-to-completion rule: an event handler *)
(* or the continuation of an await runs up to the next await as one step,  *)
(* and React has re-rendered (and run the queueRef effect) before the next *)
(* step, so the `queue` a handler closes over and queueRef.current are the *)
(* current state.                                                          *)
(*                                                                         *)
(* Further down: the three API routes (generation, recognition and the     *)
(* remove-background proxy) serving one request, the recognition page's    *)
(* extractMessageContent, the compress page and the identify page.  Each   *)
(* has its own specification; the variables of the other components stay   *)
(* as they are.                                                            *)
(***************************************************************************)
EXTENDS Integers, Sequences, FiniteSets, TLC

\* ---------------------------------------------------------------- bounds
MaxItems == 2       \* queue items created over the page's lifetime
MaxUpload == 2      \* files in one upload (one change event of the input)
MaxRuns == 2        \* activations of handleProcessQueue alive at once

\* ------------------------------------------------------------ value sets
Undefined == "undefined"    \* an absent optional field
Null == "null"              \* JavaScript null
NoUrl == 0                  \* resultUrl not set
NullId == 0                 \* activeId null

\* The files of one upload, in the order of the input's FileList.
FileNames == <<"a.png", "b.jpg", "c.webp", "d.gif">>

\* A credential is a sequence of characters; " " is whitespace.
ApiKeys == {<< >>, <<" ">>, <<" ", "k">>, <<"j">>}

\* The credit headers a response may carry (Null: header absent).
HeaderSets ==
  { [remaining |-> Null, balance |-> Null, charged |-> Null, type |-> Null],
    [remaining |-> "9",  balance |-> Null, charged |-> "1",  type |-> "api"],
    [remaining |-> Null, balance |-> "9",  charged |-> "1",  type |-> "api"] }

\* Error bodies: the `error` field of a JSON body or the text of a text body.
BodyDetails == {"", "detail"}

DefaultMessage == "default-message"      \* the fixed fallback message
FetchErrorMessage == "fetch-error"       \* error.message of a rejected fetch
BodyErrorMessage == "body-error"         \* error.message of a rejected body read

MissingCredential == "MissingCredential"
EmptyQueue == "EmptyQueue"
NoEligibleItems == "NoEligibleItems"

Idle == [pc |-> "idle"]
RunIds == 1..MaxRuns

VARIABLES
  apiKey,         \* useState apiKey
  queue,          \* useState queue: sequence of QueueItem
  activeId,       \* useState activeId: an id, or NullId
  isProcessing,   \* useState isProcessing
  globalError,    \* useState globalError: an error kind, or Null
  lastCreditInfo, \* useState lastCreditInfo: a CreditInfo, or Null
  nextId,         \* number of ids handed out so far
  runs,           \* the activations of handleProcessQueue (Idle: free slot)
  inflight,       \* external calls issued and not yet settled
  mounted,        \* the component is mounted (its state setters have effect)
  created,        \* object URLs handed out by URL.createObjectURL
  revoked,        \* object URL -> number of URL.revokeObjectURL calls on it
  route,          \* the request an API route handler is serving
  extract,        \* one evaluation of extractMessageContent
  compress,       \* the state of the compress page
  identify,       \* the state of the identify page
  lastOp,         \* history: the step taken last
  startStatus,    \* history: id and status of each item when the last run was invoked
  startSuccess,   \* history: the Success items when the last run was invoked
  startApiKey,    \* history: the credential field when the last run was invoked
  runCalls,       \* history: ids of the items called by the last batch run
  outcome         \* history: id -> how the item's call of the last run ended

vars == <<apiKey, queue, activeId, isProcessing, globalError, lastCreditInfo,
          nextId, runs, inflight, mounted, created, revoked, route, extract,
          compress, identify, lastOp, startStatus, startSuccess, startApiKey,
          runCalls, outcome>>

history == <<startStatus, startSuccess, startApiKey, runCalls, outcome>>

\* The object URL registry of the browser.
urls == <<created, revoked>>

\* What the remove-background page does not touch: the API routes, the
\* recognition page's extraction and the compress page.
elsewhere == <<route, extract, compress, identify>>

\* The remove-background page, for what the other components do not touch.
page == <<apiKey, queue, activeId, isProcessing, globalError, lastCreditInfo,
          nextId, runs, inflight, mounted, created, revoked, lastOp,
          startStatus, startSuccess, startApiKey, runCalls, outcome>>

\* ------------------------------------------------------------- helpers
RECURSIVE TrimStart(_)
TrimStart(s) ==
  IF s # << >> /\ Head(s) = " " THEN TrimStart(Tail(s)) ELSE s

RECURSIVE TrimEnd(_)
TrimEnd(s) ==
  IF s # << >> /\ s[Len(s)] = " " THEN TrimEnd(SubSeq(s, 1, Len(s) - 1)) ELSE s

\* String.prototype.trim
Trim(s) == TrimEnd(TrimStart(s))

Ids(q) == {q[i].id : i \in 1..Len(q)}

\* URL.createObjectURL hands out a fresh URL on every call.  The preview of
\* item id is created once; a result is created at most once per id, since
\* an item that got a result is Success or no longer in the queue and is in
\* no later work set.
PreviewUrlOf(id) == 2 * id
ResultUrlOf(id) == 2 * id + 1

Urls == {PreviewUrlOf(id) : id \in 1..MaxItems} \cup {ResultUrlOf(id) : id \in 1..MaxItems}

\* The object URLs an item holds.
UrlsOf(item) ==
  {item.previewUrl} \cup (IF item.resultUrl # NoUrl THEN {item.resultUrl} ELSE {})

\* URL.revokeObjectURL on each URL of S.
Revoke(rv, S) == [u \in Urls |-> IF u \in S THEN rv[u] + 1 ELSE rv[u]]

\* A state setter called with `new`: after unmount React drops the update.
SetState(new, old) == IF mounted THEN new ELSE old

\* id: `${Date.now()}-${Math.random().toString(16).slice(2)}`, taken here as
\* a token no earlier item carries; ids grow in creation order.
createQueueItem(file, id) ==
  [ id |-> id,
    file |-> file,
    previewUrl |-> PreviewUrlOf(id),
    resultUrl |-> NoUrl,
    status |-> "pending",
    error |-> Undefined,
    creditsRemaining |-> Undefined,
    creditsCharged |-> Undefined,
    creditType |-> Undefined ]

\* { ...item, ...updater }
Merge(item, updater) ==
  [f \in DOMAIN item |-> IF f \in DOMAIN updater THEN updater[f] ELSE item[f]]

\* Faulty variant: an update for an id no item carries lands on the first item.
updateQueueItem_FirstIfAbsent(q, id, updater) ==
  [i \in 1..Len(q) |->
     IF q[i].id = id \/ (i = 1 /\ id \notin Ids(q)) THEN Merge(q[i], updater) ELSE q[i]]

\* Faulty variant: the `item.id !== id` test is lost and every item is updated.
updateQueueItem_AllItems(q, id, updater) ==
  [i \in 1..Len(q) |-> Merge(q[i], updater)]

updateQueueItem(q, id, updater) ==
  [i \in 1..Len(q) |-> IF q[i].id # id THEN q[i] ELSE Merge(q[i], updater)]

\* The URLs updateQueueItem revokes: the result URL of the updated item when
\* the updater brings another one.
RevokedByUpdate(q, id, updater) ==
  {q[i].resultUrl : i \in {j \in 1..Len(q) :
      /\ q[j].id = id
      /\ "resultUrl" \in DOMAIN updater
      /\ updater.resultUrl # NoUrl
      /\ q[j].resultUrl # NoUrl
      /\ q[j].resultUrl # updater.resultUrl}}

\* response.headers.get("x-credits-remaining") ?? get("x-credit-balance") ?? null
CreditsOf(h) ==
  [ creditsRemaining |-> IF h.remaining # Null THEN h.remaining ELSE h.balance,
    creditsCharged |-> h.charged,
    creditType |-> h.type ]

CreditInfoOf(h) ==
  [ remaining |-> CreditsOf(h).creditsRemaining,
    charged |-> CreditsOf(h).creditsCharged,
    type |-> CreditsOf(h).creditType ]

\* body?.error || message, text || message
MessageOf(detail) == IF detail = "" THEN DefaultMessage ELSE detail

\* Faulty variant: the stale error message is not cleared on (re-)entry.
ProcessingUpdater_KeepError == [status |-> "processing"]

ProcessingUpdater == [status |-> "processing", error |-> Undefined]

\* Faulty variant: a non-2xx answer records the message and leaves the status.
ErrorUpdater_KeepStatus(detail, h) ==
  [error |-> MessageOf(detail)] @@ CreditsOf(h)

ErrorUpdater(detail, h) ==
  [status |-> "error", error |-> MessageOf(detail)] @@ CreditsOf(h)

SuccessUpdater(id, h) ==
  [status |-> "success", resultUrl |-> ResultUrlOf(id), error |-> Undefined]
    @@ CreditsOf(h)

\* Faulty variant: the catch block records the message and leaves the status.
CatchUpdater_KeepStatus(message) == [error |-> message]

CatchUpdater(message) == [status |-> "error", error |-> message]

NoOutcome == [id \in 1..MaxItems |-> "none"]

\* Faulty variant: only items being processed are skipped.
IsEligible_NotProcessing(item) == item.status # "processing"

IsEligible(item) == item.status = "pending" \/ item.status = "error"

\* Faulty variant: the newest eligible item is processed first.
ItemsToProcess_Reversed(q) ==
  LET w == SelectSeq(q, IsEligible)
  IN [i \in 1..Len(w) |-> w[Len(w) + 1 - i]]

\* Faulty variant: the status filter is lost and the whole queue is the work set.
ItemsToProcess_All(q) == q

\* queueRef.current.filter(...): the work set, in queue order
ItemsToProcess(q) == SelectSeq(q, IsEligible)

\* Faulty variant: the item and everything enqueued after it is dropped.
Remaining_Before(q, id) == SelectSeq(q, LAMBDA item : item.id < id)

\* queue.filter((item) => item.id !== id)
Remaining(q, id) == SelectSeq(q, LAMBDA item : item.id # id)

\* Faulty variant: the active pointer is left alone when its item is removed.
NextActive_Keep(current, id, q) == current

\* The updater handleRemoveItem passes to setActiveId.
NextActive(current, id, q) ==
  IF current = id
  THEN (IF Remaining(q, id) # << >> THEN Remaining(q, id)[1].id ELSE NullId)
  ELSE current

\* ------------------------------------------------------------------ Init
\* A component that is not running in the behaviour at hand.
Off == [pc |-> "off"]

\* The remove-background page after its first render.
PageInit ==
  /\ apiKey \in ApiKeys          \* restored from localStorage, or ""
  /\ queue = << >>
  /\ activeId = NullId
  /\ isProcessing = FALSE
  /\ globalError = Null
  /\ lastCreditInfo = Null
  /\ nextId = 0
  /\ runs = [r \in RunIds |-> Idle]
  /\ inflight = << >>
  /\ mounted = TRUE
  /\ created = {}
  /\ revoked = [u \in Urls |-> 0]
  /\ lastOp = [op |-> "init", id |-> 0]
  /\ startStatus = << >>
  /\ startSuccess = {}
  /\ startApiKey = << >>
  /\ runCalls = << >>
  /\ outcome = NoOutcome

Init ==
  /\ PageInit
  /\ route = Off
  /\ extract = Off
  /\ compress = Off
  /\ identify = Off

\* ------------------------------------------------------- user actions
\* Faulty variant: the new items are put in front of the existing ones.
AppendItems_Prepend(prev, newItems) == newItems \o prev

\* setQueue((prev) => [...prev, ...newItems])
AppendItems(prev, newItems) == prev \o newItems

\* handleFileChange: one change event of the file input with `files`
\* (lastOp.id records how many files the event carried); ids[i] is the id
\* createQueueItem computes for the i-th file.
handleFileChangeWith(files, ids) ==
  /\ mounted
  /\ files # << >>
  /\ nextId + Len(files) <= MaxItems
  /\ LET newItems == [i \in 1..Len(files) |-> createQueueItem(files[i], ids[i])]
     IN /\ globalError' = Null
        /\ queue' = AppendItems(queue, newItems)
        /\ activeId' = IF activeId = NullId THEN newItems[1].id ELSE activeId
        /\ nextId' = nextId + Len(files)
        /\ created' = created \cup {newItems[i].previewUrl : i \in 1..Len(files)}
        /\ lastOp' = [op |-> "enqueue", id |-> Len(files)]
  /\ UNCHANGED <<apiKey, isProcessing, lastCreditInfo, runs, inflight, mounted,
                 revoked, history, elsewhere>>

\* handleFileChange when no two ids computed over the page's lifetime
\* coincide: the ids are taken fresh, in creation order.
handleFileChange(files) ==
  handleFileChangeWith(files, [i \in 1..Len(files) |-> nextId + i])

\* handleRemoveItem: the remove button of a rendered item.
handleRemoveItem(id) ==
  /\ mounted
  /\ id \in Ids(queue)
  /\ queue' = Remaining(queue, id)
  /\ activeId' = NextActive(activeId, id, queue)
  /\ revoked' = Revoke(revoked, UNION {UrlsOf(queue[i]) :
                                         i \in {j \in 1..Len(queue) : queue[j].id = id}})
  /\ lastOp' = [op |-> "remove", id |-> id]
  /\ UNCHANGED <<apiKey, isProcessing, globalError, lastCreditInfo, nextId,
                 runs, inflight, mounted, created, history, elsewhere>>

\* handleClearQueue: the clear button, rendered when the queue is not empty.
handleClearQueue ==
  /\ mounted
  /\ Len(queue) > 0
  /\ queue' = << >>
  /\ activeId' = NullId
  /\ revoked' = Revoke(revoked, UNION {UrlsOf(queue[i]) : i \in 1..Len(queue)})
  /\ lastOp' = [op |-> "clear", id |-> 0]
  /\ UNCHANGED <<apiKey, isProcessing, globalError, lastCreditInfo, nextId,
                 runs, inflight, mounted, created, history, elsewhere>>

\* onClick={() => setActiveId(item.id)} of a rendered item.
selectItem(id) ==
  /\ mounted
  /\ id \in Ids(queue)
  /\ activeId' = id
  /\ lastOp' = [op |-> "select", id |-> 0]
  /\ UNCHANGED <<apiKey, queue, isProcessing, globalError, lastCreditInfo,
                 nextId, runs, inflight, mounted, urls, history, elsewhere>>

\* onChange={(event) => setApiKey(event.target.value)}
changeApiKey(key) ==
  /\ mounted
  /\ key # apiKey
  /\ apiKey' = key
  /\ lastOp' = [op |-> "apiKey", id |-> 0]
  /\ UNCHANGED <<queue, activeId, isProcessing, globalError, lastCreditInfo,
                 nextId, runs, inflight, mounted, urls, history, elsewhere>>

\* ---------------------------------------------------- handleProcessQueue
\* Faulty variant: each call reads the credential field as it is now.
CallOf_CurrentKey(r, act, i) ==
  [run |-> r, id |-> act.work[i].id, file |-> act.work[i].file,
   apiKey |-> Trim(apiKey)]

\* The external call of the loop's current item: fetch("/api/remove-background")
\* with the item's file and the trimmed credential of the activation's closure.
CallOf(r, act, i) ==
  [run |-> r, id |-> act.work[i].id, file |-> act.work[i].file,
   apiKey |-> Trim(act.apiKey)]

Settled(infl, r) == SelectSeq(infl, LAMBDA c : c.run # r)

\* Faulty variant: the loop walks the live queue, so that eligible items that
\* came after the invocation join the work list.
WorkList_Live(act, q) ==
  act.work \o
  LET late == SelectSeq(q, LAMBDA item :
                /\ IsEligible(item)
                /\ \A j \in 1..Len(act.work) : act.work[j].id # item.id)
  IN [j \in 1..Len(late) |-> [id |-> late[j].id, file |-> late[j].file]]

\* for (const item of itemsToProcess): the list taken at invocation.
WorkList(act, q) == act.work

\* The loop from its i-th item on, up to the next await: the item is set to
\* Processing and its call is issued; past the last item the processing flag
\* is cleared and the activation ends.  q, infl and calls are the queue, the
\* calls in flight and the call history as the step has left them so far.
LoopFrom(q, infl, calls, r, act, i, processing) ==
  LET work == WorkList(act, q)
      cur == [act EXCEPT !.work = work]
  IN
  IF i > Len(work)
  THEN /\ queue' = SetState(q, queue)
       /\ inflight' = infl
       /\ runCalls' = calls
       /\ isProcessing' = SetState(FALSE, isProcessing)
       /\ runs' = [runs EXCEPT ![r] = Idle]
  ELSE /\ queue' = SetState(updateQueueItem(q, work[i].id, ProcessingUpdater), queue)
       /\ inflight' = Append(infl, CallOf(r, cur, i))
       /\ runCalls' = Append(calls, work[i].id)
       /\ isProcessing' = SetState(processing, isProcessing)
       /\ runs' = [runs EXCEPT ![r] = [cur EXCEPT !.i = i, !.pc = "fetch"]]

\* Faulty variant: the credential is tested without trimming it.
RunPrecondition_NoTrim ==
  IF apiKey = << >> THEN MissingCredential
  ELSE IF Len(queue) = 0 THEN EmptyQueue
  ELSE IF ItemsToProcess(queue) = << >> THEN NoEligibleItems
  ELSE Null

\* The three early returns of handleProcessQueue, in the order of the code.
RunPrecondition ==
  IF Trim(apiKey) = << >> THEN MissingCredential
  ELSE IF Len(queue) = 0 THEN EmptyQueue
  ELSE IF ItemsToProcess(queue) = << >> THEN NoEligibleItems
  ELSE Null

handleProcessQueue(r) ==
  /\ mounted
  /\ runs[r] = Idle
  /\ \A s \in RunIds : s < r => runs[s] # Idle
  /\ lastOp' = [op |-> "run", id |-> 0]
  /\ UNCHANGED <<mounted, urls, elsewhere>>
  /\ IF RunPrecondition # Null
     THEN /\ globalError' = RunPrecondition
          /\ UNCHANGED <<apiKey, queue, activeId, isProcessing, lastCreditInfo,
                         nextId, runs, inflight, history>>
     ELSE LET itemsToProcess == ItemsToProcess(queue)
              act == [pc |-> "fetch",
                      work |-> [i \in 1..Len(itemsToProcess) |->
                                  [id |-> itemsToProcess[i].id,
                                   file |-> itemsToProcess[i].file]],
                      i |-> 1,
                      apiKey |-> apiKey,
                      resp |-> Null]
          IN /\ globalError' = Null
             /\ startStatus' = [i \in 1..Len(queue) |->
                                  [id |-> queue[i].id, status |-> queue[i].status]]
             /\ startSuccess' = {queue[i] : i \in {j \in 1..Len(queue) :
                                                     queue[j].status = "success"}}
             /\ startApiKey' = apiKey
             /\ outcome' = NoOutcome
             /\ LoopFrom(queue, inflight, << >>, r, act, 1, TRUE)
             /\ UNCHANGED <<apiKey, activeId, lastCreditInfo, nextId>>

\* Faulty variant: the button stays enabled while a run is in progress.
RunButtonDisabled_QueueOnly == Len(queue) = 0

\* disabled={isProcessing || !queue.length} of the run button
RunButtonDisabled == isProcessing \/ Len(queue) = 0

clickRun ==
  /\ ~RunButtonDisabled
  /\ \E r \in RunIds : handleProcessQueue(r)

\* The fetch of activation r settles: it rejects (transport failure; the catch
\* block runs and the loop goes on), or it resolves with a response whose
\* credit headers are read before the body is awaited.
fetchSettles(r) ==
  /\ runs[r].pc = "fetch"
  /\ LET act == runs[r]
         id == act.work[act.i].id
     IN /\ lastOp' = [op |-> "fetch", id |-> 0]
        /\ UNCHANGED <<mounted, urls, elsewhere>>
        /\ \/ /\ outcome' = [outcome EXCEPT ![id] = "failed"]
              /\ LoopFrom(updateQueueItem(queue, id, CatchUpdater(FetchErrorMessage)),
                          Settled(inflight, r), runCalls, r, act, act.i + 1,
                          isProcessing)
              /\ UNCHANGED <<apiKey, activeId, globalError, lastCreditInfo,
                             nextId, startStatus, startSuccess, startApiKey>>
           \/ /\ \E ok \in BOOLEAN, h \in HeaderSets :
                   runs' = [runs EXCEPT ![r] =
                              [act EXCEPT !.pc = "body",
                                          !.resp = [ok |-> ok, headers |-> h]]]
              /\ UNCHANGED <<apiKey, queue, activeId, isProcessing, globalError,
                             lastCreditInfo, nextId, inflight, history>>

\* The body read of activation r settles (response.json(), response.text() or
\* response.blob()): it rejects and the catch block runs, or it resolves and
\* the item becomes Error (non-2xx) or Success (2xx); then the loop goes on.
bodySettles(r) ==
  /\ runs[r].pc = "body"
  /\ LET act == runs[r]
         id == act.work[act.i].id
         ok == act.resp.ok
         h == act.resp.headers
     IN /\ lastOp' = [op |-> "body", id |-> 0]
        /\ \/ /\ outcome' = [outcome EXCEPT ![id] =
                               IF ok THEN "2xxUnread" ELSE "httpUnread"]
              /\ LoopFrom(updateQueueItem(queue, id, CatchUpdater(BodyErrorMessage)),
                          Settled(inflight, r), runCalls, r, act, act.i + 1,
                          isProcessing)
              /\ UNCHANGED <<lastCreditInfo, urls>>
           \/ /\ ~ok
              /\ outcome' = [outcome EXCEPT ![id] = "http"]
              /\ \E detail \in BodyDetails :
                   LoopFrom(updateQueueItem(queue, id, ErrorUpdater(detail, h)),
                            Settled(inflight, r), runCalls, r, act, act.i + 1,
                            isProcessing)
              /\ lastCreditInfo' = SetState(CreditInfoOf(h), lastCreditInfo)
              /\ UNCHANGED urls
           \/ /\ ok
              /\ outcome' = [outcome EXCEPT ![id] = "2xx"]
              /\ created' = created \cup {ResultUrlOf(id)}
              /\ revoked' = SetState(Revoke(revoked,
                                 RevokedByUpdate(queue, id, SuccessUpdater(id, h))),
                               revoked)
              /\ LoopFrom(updateQueueItem(queue, id, SuccessUpdater(id, h)),
                          Settled(inflight, r), runCalls, r, act, act.i + 1,
                          isProcessing)
              /\ lastCreditInfo' = SetState(CreditInfoOf(h), lastCreditInfo)
        /\ UNCHANGED <<apiKey, activeId, globalError, nextId, startStatus,
                       startSuccess, startApiKey, mounted, elsewhere>>

\* The cleanup of the mount effect (the page is torn down): every URL held
\* by an item of queueRef.current is revoked.  The activations of
\* handleProcessQueue go on; their state updates are dropped from now on.
unmount ==
  /\ mounted
  /\ mounted' = FALSE
  /\ revoked' = Revoke(revoked, UNION {UrlsOf(queue[i]) : i \in 1..Len(queue)})
  /\ lastOp' = [op |-> "unmount", id |-> 0]
  /\ UNCHANGED <<apiKey, queue, activeId, isProcessing, globalError,
                 lastCreditInfo, nextId, runs, inflight, created, history,
                 elsewhere>>

\* ------------------------------------------------------- specifications
UploadSets == {SubSeq(FileNames, 1, n) : n \in 1..MaxUpload}

UserAction ==
  \/ \E files \in UploadSets : handleFileChange(files)
  \/ \E id \in Ids(queue) : handleRemoveItem(id)
  \/ handleClearQueue
  \/ \E id \in Ids(queue) : selectItem(id)
  \/ \E key \in ApiKeys : changeApiKey(key)

Settle ==
  \/ \E r \in RunIds : fetchSettles(r)
  \/ \E r \in RunIds : bodySettles(r)

\* The page as the user drives it: the run button is the only caller of
\* handleProcessQueue.
Next == UserAction \/ clickRun \/ Settle

Spec == Init /\ [][Next]_vars

\* handleProcessQueue as the operation runBatch(): callable whenever no run
\* is in progress, on an empty queue too (the button's `!queue.length` makes
\* the handler's own empty-queue return unreachable from the page).
runBatch ==
  /\ ~isProcessing
  /\ \E r \in RunIds : handleProcessQueue(r)

HandlerNext == UserAction \/ runBatch \/ Settle

HandlerSpec == Init /\ [][HandlerNext]_vars

\* The page when every external call eventually resolves: a pending fetch
\* or body read settles at some point, whatever the user does meanwhile.
\* Every Settle step moves an activation: to its next await or to its end.
progress ==
  [r \in RunIds |-> IF runs[r].pc = "idle" THEN <<"idle", 0>>
                    ELSE <<runs[r].pc, runs[r].i>>]

LiveSpec == Spec /\ WF_progress(Settle)

\* The ids as createQueueItem computes them: `${Date.now()}-${random}` with
\* the clock value of the call and the hex digits of Math.random().  All
\* files of one change event are mapped within the same millisecond or
\* nearly so; Math.random() is any value of its range on every call.
ClockValues == 1..2
RandomValues == 1..2

\* The id token of a clock value and a random value.
IdOf(now, rnd) == 10 * now + rnd

handleFileChangeAt(files) ==
  \E now \in ClockValues, rnd \in [1..Len(files) -> RandomValues] :
    handleFileChangeWith(files, [i \in 1..Len(files) |-> IdOf(now, rnd[i])])

\* The queue as the user edits it, with the ids as the code computes them.
IdNext ==
  \/ \E files \in UploadSets : handleFileChangeAt(files)
  \/ \E id \in Ids(queue) : handleRemoveItem(id)
  \/ handleClearQueue
  \/ \E id \in Ids(queue) : selectItem(id)
  \/ \E key \in ApiKeys : changeApiKey(key)

IdSpec == Init /\ [][IdNext]_vars

\* The page with its teardown: the user may leave the page at any moment.
TeardownNext == Next \/ unmount

TeardownSpec == Init /\ [][TeardownNext]_vars

\* ======================================================== the API routes
\* A route handler serves one request from its arrival to its response; the
\* handlers share no state, so one request at a time is modelled.  `route`
\* holds the request, the server's ARK_API_KEY, the provider calls made so
\* far, the provider results received and the response sent.

MaxImages == 2      \* images in one provider response

\* JavaScript values of unknown type in a request body.
Str(s) == [t |-> "string", v |-> s]
Undef == [t |-> "undefined", v |-> << >>]
Num == [t |-> "number", v |-> << >>]

\* !value for a value that is a string or undefined
Falsy(x) == x.t = "undefined" \/ (x.t = "string" /\ x.v = << >>)

\* The apiKey field of a request body; process.env.ARK_API_KEY.
RequestKeys == {Undef, Num, Str(<<" ">>), Str(<<" ", "k", " ">>), Str(<<"j">>)}
EnvKeys == {Undef, Str(<< >>), Str(<<"e">>)}

\* Faulty variant: the server's key wins over the key of the request.
ResolvedApiKey_EnvFirst(key, env) ==
  IF ~Falsy(env) THEN env
  ELSE IF key.t = "string" /\ Trim(key.v) # << >> THEN Str(Trim(key.v)) ELSE env

\* (typeof apiKey === "string" && apiKey.trim()) || process.env.ARK_API_KEY
ResolvedApiKey(key, env) ==
  IF key.t = "string" /\ Trim(key.v) # << >> THEN Str(Trim(key.v)) ELSE env

\* Error messages of a provider body; the route's own error messages.
ClosedMessage == "The Endpoint that is currently closed or temporarily unavailable."
ClosedMessageLower == "endpoint that is currently closed or temporarily unavailable"
OtherMessage == "quota exceeded"
ConfigError == "config-error"            \* no API key configured
PromptError == "prompt-error"            \* empty prompt
ImageError == "image-error"              \* no valid image data
GenerateFailed == "generate-failed"      \* fallback of the generation route
IdentifyFailed == "identify-failed"      \* fallback of the recognition route
ServiceError == "service-error"          \* the catch block's message

\* /endpoint that is currently closed or temporarily unavailable/i.test(message)
MatchesClosed(message) == message \in {ClosedMessage, ClosedMessageLower}

\* value is a non-empty string (a string field is Undefined when absent)
Truthy(x) == x # Undefined /\ x # ""

NoIndex == -1       \* RawImageItem.index absent

RawItem(url, b64, contentType, mimeType, index) ==
  [url |-> url, b64_json |-> b64, content_type |-> contentType,
   mime_type |-> mimeType, index |-> index]

RawImageItems ==
  { RawItem("https://cdn/x.png", Undefined, Undefined, Undefined, NoIndex),
    RawItem(Undefined, "QUJD", Undefined, Undefined, NoIndex),
    RawItem(Undefined, "QUJD", "image/jpeg", "image/webp", 0),
    RawItem(Undefined, "REVG", Undefined, "image/webp", 1),
    RawItem("https://cdn/y.png", "QUJD", "image/jpeg", Undefined, 0),
    RawItem("", "REVG", Undefined, Undefined, NoIndex),
    RawItem(Undefined, "", Undefined, "image/webp", NoIndex) }

DataArrays ==
  UNION {[1..n -> RawImageItems] : n \in 0..MaxImages}

\* The parsed body of a provider response: null (empty text), the raw text
\* (not JSON), or an object with its error.message, message and data fields
\* (isArray: data is an array).
Body(kind, errorMessage, message, isArray, data) ==
  [kind |-> kind, errorMessage |-> errorMessage, message |-> message,
   isArray |-> isArray, data |-> data]

NullBody == Body("null", Undefined, Undefined, FALSE, << >>)
TextBody == Body("text", Undefined, Undefined, FALSE, << >>)

ErrorBodies ==
  {NullBody, TextBody} \cup
  {Body("object", e, m, FALSE, << >>) :
     e \in {Undefined, "", ClosedMessage, OtherMessage},
     m \in {Undefined, ClosedMessageLower}}

DataBodies ==
  {NullBody, TextBody, Body("object", Undefined, Undefined, FALSE, << >>)} \cup
  {Body("object", Undefined, Undefined, TRUE, d) : d \in DataArrays}

\* What callVolcengine returns: the response's status and the parsed body.
ProviderResults ==
  {[status |-> 200, body |-> b] : b \in DataBodies} \cup
  {[status |-> st, body |-> b] : st \in {404, 500}, b \in ErrorBodies}

\* response.ok
Ok(result) == result.status \in 200..299

\* parsedBody?.error?.message || parsedBody?.message
ErrorMessageOf(body) ==
  IF Truthy(body.errorMessage) THEN body.errorMessage ELSE body.message

\* buildImageUrl returns null for an item with neither url nor b64_json.
CanBuild(item) == Truthy(item.url) \/ Truthy(item.b64_json)

\* content_type || mime_type || fallbackMime
MimeOf(item, fallbackMime) ==
  IF Truthy(item.content_type) THEN item.content_type
  ELSE IF Truthy(item.mime_type) THEN item.mime_type
  ELSE fallbackMime

\* buildImageUrl for an item it does not return null for; a URL is the
\* sequence of the pieces it is concatenated from.
buildImageUrl(item, fallbackMime) ==
  IF Truthy(item.url)
  THEN [url |-> <<item.url>>, mime |-> MimeOf(item, fallbackMime)]
  ELSE [url |-> <<"data:", MimeOf(item, fallbackMime), ";base64,", item.b64_json>>,
        mime |-> MimeOf(item, fallbackMime)]

\* normalizeImages: one image per item buildImageUrl accepts, in order; the
\* id is `image-${item.index ?? index}` with the item's 0-based position.
normalizeImages(body) ==
  IF ~body.isArray THEN << >>
  ELSE LET items == body.data
           kept == SelectSeq([i \in 1..Len(items) |-> i],
                             LAMBDA i : CanBuild(items[i]))
       IN [k \in 1..Len(kept) |->
             LET item == items[kept[k]]
                 built == buildImageUrl(item, "image/png")
             IN [id |-> <<"image-", IF item.index # NoIndex THEN item.index
                                    ELSE kept[k] - 1>>,
                 url |-> built.url,
                 mimeType |-> built.mime]]

\* --------------------------------------------- POST /api/generate
\* The body of a request: JSON with the fields below, JSON null, or not JSON
\* (request.json() rejects).
GenerateRequests ==
  {[kind |-> k, prompt |-> p, apiKey |-> key, responseFormat |-> f] :
     k \in {"json"}, p \in {Undef, Str(<<" ">>), Str(<<" ", "p">>)},
     key \in RequestKeys, f \in {Undefined, "url", "b64_json", "png"}}
  \cup
  {[kind |-> k, prompt |-> Undef, apiKey |-> Undef, responseFormat |-> Undefined] :
     k \in {"null", "invalid"}}

\* The response of a route: status, error message, and the fields of `data`.
Response(status, error, images, responseFormat) ==
  [status |-> status, error |-> error, images |-> images,
   responseFormat |-> responseFormat]

ErrorResponse(status, error) == Response(status, error, << >>, Undefined)

NoResponse == ErrorResponse(0, Undefined)

\* The provider call callVolcengine makes: the bearer credential and the
\* response_format of the payload.
callVolcengine(key, responseFormat) == [apiKey |-> key, format |-> responseFormat]

\* Faulty variant: every failed call with url is retried.
shouldRetryWithBase64_AnyFailure(result) ==
  IF Ok(result) THEN FALSE
  ELSE result.format = "url"

\* Faulty variant: only the status 404 triggers the retry.
shouldRetryWithBase64_StatusOnly(result) ==
  IF Ok(result) THEN FALSE
  ELSE IF result.format # "url" THEN FALSE
  ELSE result.status = 404

shouldRetryWithBase64(result) ==
  IF Ok(result) THEN FALSE
  ELSE IF result.format # "url" THEN FALSE
  ELSE IF result.status = 404 THEN TRUE
  ELSE IF ~Truthy(ErrorMessageOf(result.body)) THEN FALSE
  ELSE MatchesClosed(ErrorMessageOf(result.body))

\* The response built from the final provider result.
GenerateResponse(finalResult) ==
  IF ~Ok(finalResult)
  THEN ErrorResponse(finalResult.status,
                     IF Truthy(ErrorMessageOf(finalResult.body))
                     THEN ErrorMessageOf(finalResult.body) ELSE GenerateFailed)
  ELSE Response(200, Undefined, normalizeImages(finalResult.body), finalResult.format)

Respond(resp) == route' = [route EXCEPT !.pc = "done", !.resp = resp]

\* POST up to the first await of a provider call.
generatePOST ==
  /\ route.pc = "received"
  /\ route.name = "generate"
  /\ LET req == route.req
         prompt == IF req.prompt.t = "string" THEN Trim(req.prompt.v) ELSE << >>
         initialResponseFormat ==
           IF req.responseFormat \in {"b64_json", "url"} THEN req.responseFormat
           ELSE "url"
         resolvedApiKey == ResolvedApiKey(req.apiKey, route.env)
     IN IF req.kind # "json" THEN Respond(ErrorResponse(500, ServiceError))
        ELSE IF prompt = << >> THEN Respond(ErrorResponse(400, PromptError))
        ELSE IF Falsy(resolvedApiKey) THEN Respond(ErrorResponse(400, ConfigError))
        ELSE route' = [route EXCEPT
               !.pc = "first",
               !.calls = <<callVolcengine(resolvedApiKey.v, initialResponseFormat)>>]
  /\ UNCHANGED <<page, extract, compress, identify>>

\* The first provider call settles: fetch or response.text() rejects (the
\* catch block answers), or callVolcengine returns its result.
generateFirstSettles ==
  /\ route.pc = "first"
  /\ route.name = "generate"
  /\ \/ Respond(ErrorResponse(500, ServiceError))
     \/ \E res \in ProviderResults :
          LET initialResult == [status |-> res.status, body |-> res.body,
                                format |-> route.calls[1].format]
          IN IF shouldRetryWithBase64(initialResult)
             THEN route' = [route EXCEPT
                    !.pc = "retry",
                    !.results = <<initialResult>>,
                    !.calls = Append(@, callVolcengine(route.calls[1].apiKey, "b64_json"))]
             ELSE route' = [route EXCEPT
                    !.pc = "done",
                    !.results = <<initialResult>>,
                    !.resp = GenerateResponse(initialResult)]
  /\ UNCHANGED <<page, extract, compress, identify>>

\* The retry with b64_json settles.
generateRetrySettles ==
  /\ route.pc = "retry"
  /\ route.name = "generate"
  /\ \/ Respond(ErrorResponse(500, ServiceError))
     \/ \E res \in ProviderResults :
          LET finalResult == [status |-> res.status, body |-> res.body,
                              format |-> "b64_json"]
          IN route' = [route EXCEPT
               !.pc = "done",
               !.results = Append(@, finalResult),
               !.resp = GenerateResponse(finalResult)]
  /\ UNCHANGED <<page, extract, compress, identify>>

\* --------------------------------------------- POST /api/identify
\* A string is the sequence of the pieces it is written in.
ImageDataUrls ==
  {Undef, Num, Str(<< >>), Str(<<"data:image/", "png;base64,AAAA">>),
   Str(<<"data:text/", "plain,hi">>), Str(<<"DATA:IMAGE/", "png;base64,AAAA">>),
   Str(<<"https://x/y.png">>)}

IdentifyRequests ==
  {[kind |-> "json", imageDataUrl |-> u, apiKey |-> key] :
     u \in ImageDataUrls, key \in RequestKeys}
  \cup
  {[kind |-> k, imageDataUrl |-> Undef, apiKey |-> Undef] : k \in {"null", "invalid"}}

\* imageDataUrl.startsWith("data:image/")
StartsWithDataImage(s) == s # << >> /\ s[1] = "data:image/"

\* Faulty variant: any data: URL is accepted.
ValidImage_AnyData(u) ==
  u.t = "string" /\ u.v # << >> /\ u.v[1] \in {"data:image/", "data:text/"}

\* typeof imageDataUrl === "string" && imageDataUrl.startsWith("data:image/")
ValidImage(u) == u.t = "string" /\ StartsWithDataImage(u.v)

IdentifyResults ==
  {[status |-> 200, body |-> b] :
     b \in {NullBody, TextBody, Body("object", Undefined, Undefined, FALSE, << >>)}}
  \cup
  {[status |-> st, body |-> b] : st \in {404, 500}, b \in ErrorBodies}

\* POST up to the await of the provider call.
identifyPOST ==
  /\ route.pc = "received"
  /\ route.name = "identify"
  /\ LET req == route.req
         resolvedApiKey == ResolvedApiKey(req.apiKey, route.env)
     IN IF req.kind = "invalid" THEN Respond(ErrorResponse(500, ServiceError))
        ELSE IF ~ValidImage(req.imageDataUrl)
        THEN Respond(ErrorResponse(400, ImageError))
        ELSE IF Falsy(resolvedApiKey) THEN Respond(ErrorResponse(400, ConfigError))
        ELSE route' = [route EXCEPT
               !.pc = "first",
               !.calls = <<[apiKey |-> resolvedApiKey.v, format |-> Undefined]>>]
  /\ UNCHANGED <<page, extract, compress, identify>>

\* The provider call settles: fetch or response.text() rejects, or the
\* response is turned into the route's answer.
identifySettles ==
  /\ route.pc = "first"
  /\ route.name = "identify"
  /\ \/ Respond(ErrorResponse(500, ServiceError))
     \/ \E res \in IdentifyResults :
          route' = [route EXCEPT
            !.pc = "done",
            !.results = <<[status |-> res.status, body |-> res.body,
                           format |-> Undefined]>>,
            !.resp = IF ~Ok(res)
                     THEN ErrorResponse(res.status,
                            IF Truthy(ErrorMessageOf(res.body))
                            THEN ErrorMessageOf(res.body) ELSE IdentifyFailed)
                     ELSE ErrorResponse(200, Undefined)]
  /\ UNCHANGED <<page, extract, compress, identify>>

\* --------------------------------------- POST /api/remove-background
\* The form of a request: its image entry (a File, a string, or none) and
\* its apiKey entry; formData() rejects for a body that is no form.
ProxyRequests ==
  {[kind |-> "form", image |-> i, apiKey |-> key] :
     i \in {"file", "string", "none"},
     key \in {Undef, Str(<<" ">>), Str(<<" ", "k", " ">>), Str(<<"j">>)}}
  \cup {[kind |-> "invalid", image |-> "none", apiKey |-> Undef]}

\* A header of the provider response: Null when absent, else its value.
HeaderValues == {Null, "", "9"}

\* The provider response: status, content type and the three credit headers.
ProxyResults ==
  {[status |-> st, contentType |-> ct, remaining |-> r, charged |-> c, type |-> t] :
     st \in {200, 402, 500},
     ct \in {Null, "application/json; charset=utf-8", "text/plain"},
     r \in HeaderValues, c \in HeaderValues, t \in {Null, "api"}}

\* if (value) headers.set(name, value): the header is set for a non-empty value.
Forwarded(value) == IF value # Null /\ value # "" THEN value ELSE Null

\* Faulty variant: the charged header is never forwarded.
ProxyResponse_DropCharged(status, contentType, error, res) ==
  [status |-> status, contentType |-> contentType, error |-> error,
   remaining |-> Forwarded(res.remaining), charged |-> Null,
   type |-> Forwarded(res.type)]

\* The response of the proxy with the credit headers of the provider response.
ProxyResponse(status, contentType, error, res) ==
  [status |-> status, contentType |-> contentType, error |-> error,
   remaining |-> Forwarded(res.remaining), charged |-> Forwarded(res.charged),
   type |-> Forwarded(res.type)]

\* NextResponse.json(...) without credit headers.
ProxyError(status, error) ==
  [status |-> status, contentType |-> "application/json", error |-> error,
   remaining |-> Null, charged |-> Null, type |-> Null]

ProxyFailed == "remove-background-failed"    \* the fallback messages

\* POST up to the await of the provider call.
removeBackgroundPOST ==
  /\ route.pc = "received"
  /\ route.name = "remove-background"
  /\ LET req == route.req
     IN IF req.kind = "invalid" THEN Respond(ProxyError(500, ServiceError))
        ELSE IF req.image # "file" THEN Respond(ProxyError(400, ImageError))
        ELSE IF req.apiKey.t # "string" \/ Trim(req.apiKey.v) = << >>
        THEN Respond(ProxyError(400, ConfigError))
        ELSE route' = [route EXCEPT
               !.pc = "first",
               !.calls = <<[apiKey |-> Trim(req.apiKey.v), format |-> Undefined]>>]
  /\ UNCHANGED <<page, extract, compress, identify>>

\* The fetch settles: it rejects, or the response arrives and its credit
\* headers are read before the body is awaited.
removeBackgroundFetchSettles ==
  /\ route.pc = "first"
  /\ route.name = "remove-background"
  /\ \/ Respond(ProxyError(500, ServiceError))
     \/ \E res \in ProxyResults :
          route' = [route EXCEPT !.pc = "body", !.results = <<res>>]
  /\ UNCHANGED <<page, extract, compress, identify>>

\* The body read settles (response.json(), response.text() or
\* response.arrayBuffer()): it rejects and the catch block answers, or the
\* branch of the response answers.
removeBackgroundBodySettles ==
  /\ route.pc = "body"
  /\ route.name = "remove-background"
  /\ LET res == route.results[1]
     IN \/ Respond(ProxyError(500, ServiceError))
        \/ /\ ~Ok(res)
           /\ res.contentType = "application/json; charset=utf-8"
           /\ \E title \in {Undefined, "Insufficient credits"} :
                Respond(ProxyResponse(res.status, "application/json",
                                      IF Truthy(title) THEN title ELSE ProxyFailed, res))
        \/ /\ ~Ok(res)
           /\ res.contentType # "application/json; charset=utf-8"
           /\ Respond(ProxyResponse(res.status, "application/json", ProxyFailed, res))
        \/ /\ Ok(res)
           /\ Respond(ProxyResponse(200, "image/png", Undefined, res))
  /\ UNCHANGED <<page, extract, compress, identify>>

\* ------------------------------------------------- the routes' behaviour
Arrival(name, req, env) ==
  [name |-> name, pc |-> "received", req |-> req, env |-> env,
   calls |-> << >>, results |-> << >>, resp |-> NoResponse]

RouteInit ==
  /\ PageInit
  /\ apiKey = << >>
  /\ extract = Off
  /\ compress = Off
  /\ identify = Off
  /\ route \in {Arrival("generate", req, env) :
                  req \in GenerateRequests, env \in EnvKeys}
          \cup {Arrival("identify", req, env) :
                  req \in IdentifyRequests, env \in EnvKeys}
          \cup {Arrival("remove-background", req, Undef) : req \in ProxyRequests}

RouteNext ==
  \/ generatePOST
  \/ generateFirstSettles
  \/ generateRetrySettles
  \/ identifyPOST
  \/ identifySettles
  \/ removeBackgroundPOST
  \/ removeBackgroundFetchSettles
  \/ removeBackgroundBodySettles

RouteSpec == RouteInit /\ [][RouteNext]_vars

\* ============================================= extractMessageContent
\* The recognition page's extraction of text blocks from the `data` of a
\* recognition response, which is whatever JSON the provider answered.

MaxChoices == 2     \* elements of result.choices
MaxContent == 1     \* elements of an array content

\* An element of an array content: a string, null, or an object with its
\* type and text fields (Num: a value that is neither a string nor nullish).
ContentItem(kind, type, text) == [k |-> kind, type |-> type, text |-> text]

ContentItems ==
  { ContentItem("string", Undefined, Str(<<" ", "a", " ">>)),
    ContentItem("string", Undefined, Str(<<" ">>)),
    ContentItem("null", Undefined, Undef),
    ContentItem("object", "text", Str(<<"t", " ">>)),
    ContentItem("object", "text", Undef),
    ContentItem("object", "text", Num),
    ContentItem("object", "image_url", Undef) }

\* message.content: absent, a string, an array, or something else.
Content(kind, text, items) == [k |-> kind, text |-> text, items |-> items]

Contents ==
  {Content("undefined", << >>, << >>), Content("other", << >>, << >>),
   Content("string", <<" ", "h", "i", " ">>, << >>), Content("string", <<" ">>, << >>)}
  \cup {Content("array", << >>, items) :
          items \in UNION {[1..n -> ContentItems] : n \in 0..MaxContent}}

\* An element of choices: nullish, or an object with or without a message.
Choices ==
  {[k |-> "nullish", content |-> Content("undefined", << >>, << >>)]}
  \cup {[k |-> "object", content |-> c] : c \in Contents}

\* The top-level output_text: not in the object, nullish, a string, a number.
OutputTexts ==
  {[k |-> "absent", text |-> << >>], [k |-> "nullish", text |-> << >>],
   [k |-> "string", text |-> <<" ", "o">>], [k |-> "string", text |-> <<" ">>],
   [k |-> "number", text |-> <<"7">>]}

\* The argument: null, a primitive (falsy or truthy: a response body that
\* is a bare JSON string or number), or an object.
ResultValues ==
  {[k |-> kind, isArray |-> FALSE, choices |-> << >>,
    output |-> [k |-> "absent", text |-> << >>]] :
     kind \in {"null", "falsy", "primitive"}}
  \cup
  {[k |-> "object", isArray |-> FALSE, choices |-> << >>, output |-> o] :
     o \in OutputTexts}
  \cup
  {[k |-> "object", isArray |-> TRUE, choices |-> cs, output |-> o] :
     cs \in UNION {[1..n -> Choices] : n \in 0..MaxChoices}, o \in OutputTexts}

Block(id, text) == [id |-> id, text |-> text]

\* text?.trim() is a call of undefined for a text that is neither nullish
\* nor a string: a TypeError.
ItemThrows(item) ==
  item.k = "object" /\ item.type = "text" /\ item.text.t \notin {"undefined", "string"}

\* The blocks one element of an array content pushes.
ItemBlocks(item, index, innerIndex) ==
  IF /\ \/ item.k = "string"
        \/ item.k = "object" /\ item.type = "text"
     /\ item.text.t = "string"
     /\ Trim(item.text.v) # << >>
  THEN <<Block(<<"choice-", index, "-text-", innerIndex>>, Trim(item.text.v))>>
  ELSE << >>

RECURSIVE Flatten(_)
Flatten(seqs) == IF seqs = << >> THEN << >> ELSE Head(seqs) \o Flatten(Tail(seqs))

\* The blocks one choice pushes.
ChoiceBlocks(choice, index) ==
  IF choice.content.k = "string"
  THEN IF Trim(choice.content.text) # << >>
       THEN <<Block(<<"choice-", index, "-text-", 0>>, Trim(choice.content.text))>>
       ELSE << >>
  ELSE IF choice.content.k = "array"
  THEN Flatten([j \in 1..Len(choice.content.items) |->
                  ItemBlocks(choice.content.items[j], index, j - 1)])
  ELSE << >>

\* The value extractMessageContent returns when it does not throw.
Extracted(result) ==
  LET blocks == Flatten([i \in 1..Len(result.choices) |->
                           ChoiceBlocks(result.choices[i], i - 1)])
  IN IF blocks # << >> THEN blocks
     ELSE IF result.output.k \in {"string", "number"} /\ Trim(result.output.text) # << >>
     THEN <<Block(<<"fallback-output-text">>, Trim(result.output.text))>>
     ELSE << >>

\* extractMessageContent throws: in the loop, or at `"output_text" in result`
\* for a truthy primitive.
Throws(result) ==
  \/ \E i \in 1..Len(result.choices) :
       /\ result.choices[i].content.k = "array"
       /\ \E j \in 1..Len(result.choices[i].content.items) :
            ItemThrows(result.choices[i].content.items[j])
  \/ result.k = "primitive"

\* One evaluation of extractMessageContent(result).
extractMessageContent ==
  /\ extract.pc = "call"
  /\ extract' = [pc |-> "returned",
                 result |-> extract.result,
                 thrown |-> Throws(extract.result),
                 blocks |-> IF Throws(extract.result) THEN << >>
                            ELSE Extracted(extract.result)]
  /\ UNCHANGED <<page, route, compress, identify>>

ExtractInit ==
  /\ PageInit
  /\ apiKey = << >>
  /\ route = Off
  /\ compress = Off
  /\ identify = Off
  /\ extract \in {[pc |-> "call", result |-> r, thrown |-> FALSE, blocks |-> << >>] :
                    r \in ResultValues}

ExtractNext == extractMessageContent

ExtractSpec == ExtractInit /\ [][ExtractNext]_vars

\* ==================================================== the compress page
\* CompressPage: the selected file, the result shown, the flags, and the one
\* activation of handleCompress with its three awaits in compressImage
\* (FileReader, Image decode, canvas.toBlob).  A file is known by its type.

FileTypes == {"image/png", "image/webp", "image/jpeg", "image/gif", ""}

ReadError == "read-error"          \* reader.onerror
DecodeError == "decode-error"      \* img.onerror
CanvasError == "canvas-error"      \* no 2d context
EncodeError == "encode-error"      \* toBlob gave null
UnknownError == "unknown-error"    \* the catch block's fallback

NoResult == [source |-> Null, mimeType |-> Null, ops |-> << >>]
NoJob == [pc |-> "idle", file |-> Null, target |-> Null, ops |-> << >>]

\* Faulty variant: only PNG sources keep an alpha-capable target.
TargetType_PngOnly(type) ==
  IF type \in {"image/png"} THEN "image/webp" ELSE "image/jpeg"

\* supportsAlpha ? "image/webp" : "image/jpeg"
TargetType(type) ==
  IF type \in {"image/png", "image/webp"} THEN "image/webp" ELSE "image/jpeg"

\* The canvas calls between getContext and toBlob.
CanvasOps(targetType) ==
  IF targetType = "image/jpeg" THEN <<"fillRect #ffffff", "drawImage">>
  ELSE <<"drawImage">>

\* Faulty variant: every failure is reported with the same message.
CaughtMessage_Generic(message) == UnknownError

\* err instanceof Error ? err.message : fallback -- compressImage rejects
\* with Error objects only.
CaughtMessage(message) == message

\* handleFileChange of the compress page with the first file of the event.
compressFileChange(nextFile) ==
  /\ compress.pc = "page"
  /\ compress' = [compress EXCEPT
       !.error = Null,
       !.file = nextFile,
       !.compressedResult = NoResult,
       !.lastOp = "file"]
  /\ UNCHANGED <<page, route, extract, identify>>

\* handleCompress up to the first await; the button is disabled without a
\* file and while a compression runs.
handleCompress ==
  /\ compress.pc = "page"
  /\ compress.file # Null
  /\ ~compress.isCompressing
  /\ compress' = [compress EXCEPT
       !.isCompressing = TRUE,
       !.error = Null,
       !.job = [pc |-> "read", file |-> compress.file, target |-> Null, ops |-> << >>],
       !.lastOp = "compress"]
  /\ UNCHANGED <<page, route, extract, identify>>

\* compressImage rejects with `message`: the catch and finally blocks.
Caught(message, op) ==
  compress' = [compress EXCEPT
    !.error = CaughtMessage(message),
    !.isCompressing = FALSE,
    !.job = NoJob,
    !.lastOp = op]

\* The FileReader settles.
readSettles ==
  /\ compress.pc = "page"
  /\ compress.job.pc = "read"
  /\ \/ Caught(ReadError, "readFailed")
     \/ compress' = [compress EXCEPT !.job.pc = "decode", !.lastOp = "read"]
  /\ UNCHANGED <<page, route, extract, identify>>

\* The Image settles: onerror, or onload and the canvas work up to toBlob.
decodeSettles ==
  /\ compress.pc = "page"
  /\ compress.job.pc = "decode"
  /\ \/ Caught(DecodeError, "decodeFailed")
     \/ Caught(CanvasError, "canvasFailed")
     \/ LET targetType == TargetType(compress.job.file)
        IN compress' = [compress EXCEPT
             !.job.pc = "encode",
             !.job.target = targetType,
             !.job.ops = CanvasOps(targetType),
             !.lastOp = "decode"]
  /\ UNCHANGED <<page, route, extract, identify>>

\* canvas.toBlob calls back: with null, or with the blob, which becomes the
\* result shown.
encodeSettles ==
  /\ compress.pc = "page"
  /\ compress.job.pc = "encode"
  /\ \/ Caught(EncodeError, "encodeFailed")
     \/ compress' = [compress EXCEPT
          !.compressedResult = [source |-> compress.job.file,
                                mimeType |-> compress.job.target,
                                ops |-> compress.job.ops],
          !.isCompressing = FALSE,
          !.job = NoJob,
          !.lastOp = "encode"]
  /\ UNCHANGED <<page, route, extract, identify>>

CompressInit ==
  /\ PageInit
  /\ apiKey = << >>
  /\ route = Off
  /\ extract = Off
  /\ identify = Off
  /\ compress = [pc |-> "page", file |-> Null, compressedResult |-> NoResult,
                 isCompressing |-> FALSE, error |-> Null, job |-> NoJob,
                 lastOp |-> "init"]

CompressNext ==
  \/ \E nextFile \in FileTypes : compressFileChange(nextFile)
  \/ handleCompress
  \/ readSettles
  \/ decodeSettles
  \/ encodeSettles

CompressSpec == CompressInit /\ [][CompressNext]_vars

\* ==================================================== the identify page
\* IdentifyPage: the selected file, the recognition result shown, the flags,
\* and the one activation of handleSubmit with its three awaits
\* (readFileAsDataUrl, fetch, response.json).  A file is known by a number;
\* a result is known by the file whose data URL was sent for it.

IdentifyFiles == 1..2
NoFile == 0                         \* file === null
NoRecognition == 0                  \* result === null

MissingFile == "missing-file"       \* handleSubmit without a file
FileReadError == "file-read-error"  \* readFileAsDataUrl rejects
FetchError == "fetch-error"         \* fetch or response.json() rejects
RouteError == "route-error"         \* payload.error of a non-2xx response

\* The values typed into the credential field.
IdentifyKeys == {<< >>, <<"k">>, <<" ", "k">>}

\* An activation of handleSubmit: the await it is at, the file and the
\* credential it sends (Undefined: the apiKey field is left out), response.ok.
NoSubmit == [pc |-> "idle", file |-> NoFile, apiKey |-> Undef, ok |-> FALSE]

\* onChange of the credential field: setApiKey(event.target.value).
identifyApiKeyChange(value) ==
  /\ identify.pc = "page"
  /\ identify' = [identify EXCEPT !.apiKey = value, !.lastOp = "apiKey"]
  /\ UNCHANGED <<page, route, extract, compress>>

\* handleFileChange of the identify page with the first file of the event.
identifyFileChange(nextFile) ==
  /\ identify.pc = "page"
  /\ identify' = [identify EXCEPT
       !.error = Null,
       !.result = NoRecognition,
       !.file = nextFile,
       !.lastOp = "file"]
  /\ UNCHANGED <<page, route, extract, compress>>

\* handleSubmit up to the first await; the button is disabled while a
\* request is loading.
handleSubmit ==
  /\ identify.pc = "page"
  /\ ~identify.isLoading
  /\ IF identify.file = NoFile
     THEN identify' = [identify EXCEPT !.error = MissingFile, !.lastOp = "submit"]
     ELSE identify' = [identify EXCEPT
            !.isLoading = TRUE,
            !.error = Null,
            !.result = NoRecognition,
            !.job = [pc |-> "read", file |-> identify.file,
                     apiKey |-> IF Trim(identify.apiKey) # << >>
                                THEN Str(Trim(identify.apiKey)) ELSE Undef,
                     ok |-> FALSE],
            !.lastOp = "submit"]
  /\ UNCHANGED <<page, route, extract, compress>>

\* handleReset; the button is disabled while loading and without a file.
handleReset ==
  /\ identify.pc = "page"
  /\ ~identify.isLoading
  /\ identify.file # NoFile
  /\ identify' = [identify EXCEPT
       !.file = NoFile,
       !.result = NoRecognition,
       !.error = Null,
       !.lastOp = "reset"]
  /\ UNCHANGED <<page, route, extract, compress>>

\* An await of handleSubmit rejects, or the route answered with an error:
\* setError, then the finally block.
SubmitFailed(message, op) ==
  identify' = [identify EXCEPT
    !.error = message,
    !.isLoading = FALSE,
    !.job = NoSubmit,
    !.lastOp = op]

\* readFileAsDataUrl settles.
readFileAsDataUrlSettles ==
  /\ identify.pc = "page"
  /\ identify.job.pc = "read"
  /\ \/ SubmitFailed(FileReadError, "readFailed")
     \/ identify' = [identify EXCEPT !.job.pc = "fetch", !.lastOp = "read"]
  /\ UNCHANGED <<page, route, extract, compress>>

\* fetch("/api/identify") settles: it rejects, or resolves with a response.
identifyFetchSettles ==
  /\ identify.pc = "page"
  /\ identify.job.pc = "fetch"
  /\ \/ SubmitFailed(FetchError, "fetchFailed")
     \/ \E ok \in BOOLEAN :
          identify' = [identify EXCEPT
            !.job.pc = "json", !.job.ok = ok, !.lastOp = "fetch"]
  /\ UNCHANGED <<page, route, extract, compress>>

\* response.json() settles: it rejects, or gives the payload; of a 2xx
\* response, payload.data (the recognition of the file sent) or null becomes
\* the result shown.
identifyJsonSettles ==
  /\ identify.pc = "page"
  /\ identify.job.pc = "json"
  /\ \/ SubmitFailed(FetchError, "jsonFailed")
     \/ /\ ~identify.job.ok
        /\ SubmitFailed(RouteError, "routeError")
     \/ /\ identify.job.ok
        /\ \E data \in {identify.job.file, NoRecognition} :
             identify' = [identify EXCEPT
               !.result = data,
               !.isLoading = FALSE,
               !.job = NoSubmit,
               !.lastOp = "json"]
  /\ UNCHANGED <<page, route, extract, compress>>

IdentifyInit ==
  /\ PageInit
  /\ apiKey = << >>
  /\ route = Off
  /\ extract = Off
  /\ compress = Off
  /\ identify \in {[pc |-> "page", file |-> NoFile, apiKey |-> stored,
                     result |-> NoRecognition, isLoading |-> FALSE,
                     error |-> Null, job |-> NoSubmit, lastOp |-> "init"] :
                      stored \in IdentifyKeys}

IdentifyNext ==
  \/ \E nextFile \in IdentifyFiles : identifyFileChange(nextFile)
  \/ \E value \in IdentifyKeys : identifyApiKeyChange(value)
  \/ handleSubmit
  \/ handleReset
  \/ readFileAsDataUrlSettles
  \/ identifyFetchSettles
  \/ identifyJsonSettles

IdentifySpec == IdentifyInit /\ [][IdentifyNext]_vars


\* ---------------------------------------------------------------- claims
Statuses == {"pending", "processing", "success", "error"}

IsBlank(key) == \A i \in 1..Len(key) : key[i] = " "

HasWork(q) == \E i \in 1..Len(q) : q[i].status \in {"pending", "error"}

RunEnded == startStatus # << >> /\ \A r \in RunIds : runs[r] = Idle

\* Ids of the work set of the last run: Pending or Error at invocation.
WorkIds ==
  LET w == SelectSeq(startStatus, LAMBDA e : e.status \in {"pending", "error"})
  IN [i \in 1..Len(w) |-> w[i].id]

Range(f) == {f[i] : i \in DOMAIN f}

IsPrefix(a, b) == Len(a) <= Len(b) /\ a = SubSeq(b, 1, Len(a))

\* C1: an invocation of handleProcessQueue with a credential that is blank
\* after trimming, with an empty queue, or with no Pending or Error item
\* reports the error of the first failing check, issues no external call,
\* does not set the processing flag and leaves the queue unchanged.
C1_FailFast ==
  [][ (lastOp'.op = "run" /\ (IsBlank(apiKey) \/ queue = << >> \/ ~HasWork(queue)))
        => /\ globalError' = (IF IsBlank(apiKey) THEN MissingCredential
                              ELSE IF queue = << >> THEN EmptyQueue
                              ELSE NoEligibleItems)
           /\ inflight' = inflight
           /\ runCalls' = runCalls
           /\ runs' = runs
           /\ isProcessing' = isProcessing
           /\ queue' = queue ]_vars

\* C1 witness: the handler has just rejected a run on an empty queue with a
\* usable credential.
C1_Witness ==
  lastOp.op = "run" /\ globalError = EmptyQueue /\ ~IsBlank(apiKey) /\ ~isProcessing

\* C2: at most one external call is in flight and at most one batch run is
\* active, whatever the user does meanwhile.
C2_OneCallInFlight ==
  /\ Len(inflight) <= 1
  /\ Cardinality({r \in RunIds : runs[r] # Idle}) <= 1

\* C2 witness: a call is in flight, another item waits, and the user has just
\* changed the credential.
C2_Witness ==
  /\ Len(inflight) = 1
  /\ lastOp.op = "apiKey"
  /\ \E i \in 1..Len(queue) : queue[i].status = "pending"

\* C3 as stated: when the run has ended, a work-set item still in the queue is
\* Success iff its own call returned a 2xx response, and Error otherwise.
C3_SuccessIff2xx ==
  RunEnded =>
    \A i \in 1..Len(queue) :
      queue[i].id \in Range(WorkIds) =>
        /\ outcome[queue[i].id] # "none"
        /\ queue[i].status =
             (IF outcome[queue[i].id] \in {"2xx", "2xxUnread"}
              THEN "success" ELSE "error")

\* C3 amended: when the run has ended, every work-set item still in the queue
\* has had its call, and is Success iff its own call returned a 2xx response
\* whose body was read, and Error otherwise.
C3_FailureIsolation ==
  RunEnded =>
    \A i \in 1..Len(queue) :
      queue[i].id \in Range(WorkIds) =>
        /\ outcome[queue[i].id] # "none"
        /\ queue[i].status =
             (IF outcome[queue[i].id] = "2xx" THEN "success" ELSE "error")

\* C3 witness: a run over two items has ended, the first item's call failed
\* and the second item's call succeeded.
C3_Witness ==
  /\ RunEnded
  /\ Len(queue) = 2
  /\ Len(WorkIds) = 2
  /\ queue[1].status = "error" /\ outcome[queue[1].id] = "failed"
  /\ queue[2].status = "success" /\ outcome[queue[2].id] = "2xx"

\* C4: an item that is Success when a run is invoked gets no call from that
\* run and keeps all its fields; the run calls exactly the items that were
\* Pending or Error at invocation.
C4_SuccessSkipped ==
  /\ \A s \in startSuccess :
       /\ s.id \notin Range(runCalls)
       /\ \A i \in 1..Len(queue) : queue[i].id = s.id => queue[i] = s
  /\ IsPrefix(runCalls, WorkIds)
  /\ RunEnded => runCalls = WorkIds

\* C4 witness: a second run has ended that found one item Success and
\* reprocessed an item the first run had left in Error.
C4_Witness ==
  /\ RunEnded
  /\ startSuccess # {}
  /\ \E k \in 1..Len(startStatus) :
       /\ startStatus[k].status = "error"
       /\ runCalls = <<startStatus[k].id>>
  /\ \A s \in startSuccess : \E i \in 1..Len(queue) : queue[i] = s

\* C5: a run visits its work set in queue order (ids are handed out in
\* insertion order), one call per item; while an item's call is in flight the
\* item is Processing, every item called before it already carries its
\* Success or Error, and the items not yet reached still have the status
\* they had at invocation.
C5_InOrder ==
  /\ IsPrefix(runCalls, WorkIds)
  /\ \A k \in 1..(Len(runCalls) - 1) : runCalls[k] < runCalls[k + 1]
  /\ \A c \in Range(inflight) : c.id = runCalls[Len(runCalls)]
  /\ \A i \in 1..Len(queue) :
       LET id == queue[i].id
           st == queue[i].status
       IN IF \E c \in Range(inflight) : c.id = id
          THEN st = "processing"
          ELSE IF id \in Range(runCalls)
          THEN st \in {"success", "error"}
          ELSE /\ st # "processing"
               /\ \A k \in 1..Len(startStatus) :
                    startStatus[k].id = id => st = startStatus[k].status

\* C5 witness: the second item's call is in flight, the first item's
\* transition has been applied.
C5_Witness ==
  /\ Len(queue) = 2
  /\ runCalls = <<queue[1].id, queue[2].id>>
  /\ Len(inflight) = 1
  /\ queue[1].status \in {"success", "error"}
  /\ queue[2].status = "processing"

\* C6: a run issues no external call for an item that was removed from the
\* queue before the loop reached it: every call a step issues is for an item
\* that is in the queue.
C6_NoCallAfterRemoval ==
  [][ \A c \in Range(inflight') :
        c \notin Range(inflight) => c.id \in Ids(queue) ]_vars

Allowed ==
  { <<"pending", "processing">>, <<"error", "processing">>,
    <<"processing", "success">>, <<"processing", "error">> }

\* C7: an item's status changes only along Pending->Processing,
\* Error->Processing, Processing->Success and Processing->Error, a change
\* into Processing is made by a step of the batch-run loop, and a new item
\* enters the queue as Pending.
C7_StatusTransitions ==
  [][ /\ \A i \in 1..Len(queue), j \in 1..Len(queue') :
           (queue[i].id = queue'[j].id /\ queue[i].status # queue'[j].status)
             => /\ <<queue[i].status, queue'[j].status>> \in Allowed
                /\ queue'[j].status = "processing"
                     => lastOp'.op \in {"run", "fetch", "body"}
      /\ \A j \in 1..Len(queue') :
           queue'[j].id \notin Ids(queue) => queue'[j].status = "pending" ]_vars

\* C7 witness: an item that was Error when the run was invoked is Processing.
C7_Witness ==
  \E i \in 1..Len(queue), k \in 1..Len(startStatus) :
    /\ startStatus[k].id = queue[i].id
    /\ startStatus[k].status = "error"
    /\ queue[i].status = "processing"

HasResult(item) == item.resultUrl # NoUrl

HasError(item) == item.error \notin {Undefined, ""}

\* C8: an item has a result iff it is Success and an error message iff it is
\* Error; so no item holds both, and Pending and Processing items hold neither.
C8_ResultXorError ==
  \A i \in 1..Len(queue) :
    /\ queue[i].status \in Statuses
    /\ queue[i].error # ""
    /\ HasResult(queue[i]) <=> queue[i].status = "success"
    /\ HasError(queue[i]) <=> queue[i].status = "error"

\* C8 witness: an item is Processing again after an attempt that ended in
\* Error with a response (its quota fields are set).
C8_Witness ==
  \E i \in 1..Len(queue) :
    /\ queue[i].status = "processing"
    /\ queue[i].creditsCharged # Undefined

\* C9: the active pointer is empty or the id of an item in the queue, and it
\* is empty only when the queue is empty.
C9_ActiveInQueue ==
  /\ activeId = NullId \/ activeId \in Ids(queue)
  /\ activeId = NullId => queue = << >>

\* C9 witness: the first item has just been removed and the pointer is on the
\* new first item.
C9_Witness ==
  /\ lastOp.op = "remove"
  /\ queue # << >>
  /\ lastOp.id < queue[1].id
  /\ activeId = queue[1].id

C11_EnqueueAppends ==
  [][ lastOp'.op = "enqueue" =>
        LET n == lastOp'.id
            old == Len(queue)
        IN /\ n >= 1
           /\ Len(queue') = old + n
           /\ SubSeq(queue', 1, old) = queue
           /\ \A k \in 1..n :
                LET item == queue'[old + k]
                IN /\ item.file = FileNames[k]
                   /\ item.status = "pending"
                   /\ item.resultUrl = NoUrl
                   /\ item.error = Undefined
                   /\ item.creditsRemaining = Undefined
                   /\ item.creditsCharged = Undefined
                   /\ item.creditType = Undefined
                   /\ item.id \notin Ids(queue)
           /\ inflight' = inflight
           /\ runCalls' = runCalls
           /\ runs' = runs
           /\ isProcessing' = isProcessing ]_vars

\* C11 witness: a file has just been added behind an item whose call is in
\* flight.
C11_Witness ==
  /\ lastOp.op = "enqueue"
  /\ Len(queue) = 2
  /\ queue[1].status = "processing"
  /\ queue[2].status = "pending"
  /\ Len(inflight) = 1

\* The object URLs held by the items of the queue.
Held == UNION {UrlsOf(queue[i]) : i \in 1..Len(queue)}

\* C12: every preview or result object URL created for a queue item is
\* released exactly once: never twice, not while a mounted page's item holds
\* it, and once as soon as no item of a mounted page holds it (removal,
\* clear) or the page is torn down, also when the item was removed or the
\* page torn down while the item's call was in flight and the call later
\* succeeds.
C12_ReleasedExactlyOnce ==
  /\ \A u \in Urls : revoked[u] > 0 => u \in created
  /\ \A u \in created :
       revoked[u] = (IF mounted /\ u \in Held THEN 0 ELSE 1)

\* The quota fields of an item.
QuotaOf(item) == <<item.creditsRemaining, item.creditsCharged, item.creditType>>

\* The quota values a response's credit headers carry (Null: header absent).
QuotaIn(h) ==
  <<IF h.remaining # Null THEN h.remaining ELSE h.balance, h.charged, h.type>>

\* C13: when the call of an item settles and the item is still in the queue,
\* its quota fields are those of the response's credit headers whenever a
\* response was returned (whether the item ends in Success or in Error), and
\* keep the values they had before the attempt when the call failed at
\* transport level.
C13_QuotaFromResponse ==
  [][ \A id \in 1..MaxItems :
        (outcome[id] = "none" /\ outcome'[id] # "none") =>
          \A k \in 1..Len(queue') :
            queue'[k].id = id =>
              IF outcome'[id] = "failed"
              THEN QuotaOf(queue'[k]) = QuotaOf(queue[k])
              ELSE \E r \in RunIds :
                     /\ runs[r].pc = "body"
                     /\ runs[r].work[runs[r].i].id = id
                     /\ QuotaOf(queue'[k]) = QuotaIn(runs[r].resp.headers) ]_vars

\* The message a provider error body reports: error.message, else message.
ReportedMessage(body) ==
  IF body.errorMessage \notin {Undefined, ""} THEN body.errorMessage ELSE body.message

\* The items of a provider body that yield an image: those with a url or a
\* b64_json payload.
Built(body) ==
  IF body.isArray
  THEN SelectSeq(body.data, LAMBDA it : it.url \notin {Undefined, ""}
                                        \/ it.b64_json \notin {Undefined, ""})
  ELSE << >>

\* C14: when the first provider call of the generation route used format url
\* and failed with status 404 or with an error message matching 'endpoint
\* that is currently closed or temporarily unavailable', the route makes
\* exactly one more call, with b64_json and the same credential; if that
\* retry succeeds the response is 200 with responseFormat "b64_json" and
\* every image built from a b64_json payload has the url
\* data:<mime>;base64,<payload>.
C14_RetryWithBase64 ==
  (/\ route.name = "generate"
   /\ Len(route.results) >= 1
   /\ route.calls[1].format = "url"
   /\ route.results[1].status \notin 200..299
   /\ \/ route.results[1].status = 404
      \/ ReportedMessage(route.results[1].body) \in {ClosedMessage, ClosedMessageLower})
  => /\ Len(route.calls) = 2
     /\ route.calls[2].format = "b64_json"
     /\ route.calls[2].apiKey = route.calls[1].apiKey
     /\ (Len(route.results) = 2 /\ route.results[2].status \in 200..299)
          => /\ route.pc = "done"
             /\ route.resp.status = 200
             /\ route.resp.responseFormat = "b64_json"
             /\ LET items == Built(route.results[2].body)
                IN /\ Len(route.resp.images) = Len(items)
                   /\ \A k \in 1..Len(items) :
                        items[k].url \in {Undefined, ""} =>
                          route.resp.images[k].url =
                            <<"data:", route.resp.images[k].mimeType, ";base64,",
                              items[k].b64_json>>

\* C14 witness: the first call, with url, got a 500 with the 'closed' message,
\* the retry succeeded, and the response carries an image built from a
\* b64_json payload behind a direct one.
C14_Witness ==
  /\ route.name = "generate"
  /\ route.pc = "done"
  /\ Len(route.results) = 2
  /\ route.results[1].status = 500
  /\ route.results[2].status = 200
  /\ route.resp.responseFormat = "b64_json"
  /\ Len(route.resp.images) = 2
  /\ Len(route.resp.images[1].url) = 1
  /\ route.resp.images[2].url[1] = "data:"

\* A request one of the two Volcengine routes accepts: a JSON body with a
\* prompt that is not blank (generation) or with an image data URL
\* (recognition).
Accepted ==
  /\ route.name \in {"generate", "identify"}
  /\ route.req.kind = "json"
  /\ IF route.name = "generate"
     THEN route.req.prompt.t = "string" /\ ~IsBlank(route.req.prompt.v)
     ELSE /\ route.req.imageDataUrl.t = "string"
          /\ route.req.imageDataUrl.v # << >>
          /\ route.req.imageDataUrl.v[1] = "data:image/"

\* C15: in the recognition and the generation route, once an accepted
\* request is past the checks, every provider call carries the per-request
\* apiKey (trimmed) when that is a non-blank string, and else the server's
\* ARK_API_KEY; when neither is present the route has answered 400 with the
\* configuration error and made no provider call.
C15_CredentialResolution ==
  (Accepted /\ route.pc # "received") =>
    LET key == route.req.apiKey
        env == route.env
    IN IF key.t = "string" /\ ~IsBlank(key.v)
       THEN /\ route.calls # << >>
            /\ \A i \in 1..Len(route.calls) : route.calls[i].apiKey = Trim(key.v)
       ELSE IF env.t = "string" /\ env.v # << >>
       THEN /\ route.calls # << >>
            /\ \A i \in 1..Len(route.calls) : route.calls[i].apiKey = env.v
       ELSE /\ route.calls = << >>
            /\ route.pc = "done"
            /\ route.resp.status = 400
            /\ route.resp.error = ConfigError

\* C15 witness: the generation route has retried with the server's key
\* because the request's apiKey was blank.
C15_Witness ==
  /\ route.name = "generate"
  /\ route.req.apiKey = Str(<<" ">>)
  /\ route.env = Str(<<"e">>)
  /\ Len(route.calls) = 2
  /\ route.calls[2].apiKey = <<"e">>

\* C16: the recognition route answers a request whose imageDataUrl is
\* absent, not a string, or does not start with "data:image/" with 400 and
\* the image error, and makes no provider call; the check comes before the
\* credential is resolved, so the answer is the same with or without a key.
C16_ImageValidatedFirst ==
  (/\ route.name = "identify"
   /\ route.req.kind \in {"json", "null"}
   /\ route.pc # "received"
   /\ \/ route.req.imageDataUrl.t # "string"
      \/ route.req.imageDataUrl.v = << >>
      \/ route.req.imageDataUrl.v[1] # "data:image/")
  => /\ route.pc = "done"
     /\ route.resp.status = 400
     /\ route.resp.error = ImageError
     /\ route.calls = << >>

\* C16 witness: a request with a data: URL that is no image and with no
\* credential anywhere has been answered with the image error.
C16_Witness ==
  /\ route.name = "identify"
  /\ route.pc = "done"
  /\ route.req.imageDataUrl = Str(<<"data:text/", "plain,hi">>)
  /\ route.req.apiKey = Undef
  /\ route.env = Undef
  /\ route.resp.error = ImageError

\* The remove-background proxy has answered a request for which the provider
\* returned a response.
ProxyAnswered ==
  /\ route.name = "remove-background"
  /\ route.pc = "done"
  /\ Len(route.results) = 1

\* C20 as stated: for a provider 2xx the proxy answers 200 with content type
\* image/png, for a provider non-2xx it answers with the provider's status
\* and a JSON error body, and each of the three credit headers is in the
\* answer, with the provider's value, exactly when the provider response
\* carried it.
C20_ProxyForwards ==
  ProxyAnswered =>
    LET res == route.results[1]
        resp == route.resp
    IN /\ res.status \in 200..299 =>
            resp.status = 200 /\ resp.contentType = "image/png"
       /\ res.status \notin 200..299 =>
            /\ resp.status = res.status
            /\ resp.contentType = "application/json"
            /\ resp.error # Undefined
       /\ resp.remaining = res.remaining
       /\ resp.charged = res.charged
       /\ resp.type = res.type

\* C20 amended: when the provider's body was read, the proxy answers a
\* provider 2xx with 200 and content type image/png and a provider non-2xx
\* with the provider's status and a JSON error body, and each credit header
\* is in the answer, with the provider's value, exactly when the provider
\* response carried it with a non-empty value; when reading the provider's
\* body fails the proxy answers 500 with a JSON error body and no credit
\* header.
C20_ProxyForwardsRead ==
  ProxyAnswered =>
    LET res == route.results[1]
        resp == route.resp
    IN IF resp.error = ServiceError
       THEN /\ resp.status = 500
            /\ resp.contentType = "application/json"
            /\ resp.remaining = Null /\ resp.charged = Null /\ resp.type = Null
       ELSE /\ res.status \in 200..299 =>
                 resp.status = 200 /\ resp.contentType = "image/png"
            /\ res.status \notin 200..299 =>
                 /\ resp.status = res.status
                 /\ resp.contentType = "application/json"
                 /\ resp.error # Undefined
            /\ resp.remaining = (IF res.remaining = "" THEN Null ELSE res.remaining)
            /\ resp.charged = (IF res.charged = "" THEN Null ELSE res.charged)
            /\ resp.type = (IF res.type = "" THEN Null ELSE res.type)

\* C20 witness: a provider 402 with a JSON body, a remaining-credits header
\* and an empty charged-credits header has been answered with 402, the
\* first header and not the second.
C20_Witness ==
  /\ ProxyAnswered
  /\ route.results[1].status = 402
  /\ route.results[1].contentType = "application/json; charset=utf-8"
  /\ route.results[1].remaining = "9"
  /\ route.results[1].charged = ""
  /\ route.resp.status = 402
  /\ route.resp.remaining = "9"
  /\ route.resp.charged = Null

\* C17: extractMessageContent never throws; every block it returns carries a
\* trimmed, non-empty text; a string content gives one block, an array
\* content one block per non-empty string or {type:"text"} element; the
\* block of a non-empty top-level output_text is returned only alone, when no
\* choice gave a block; otherwise the list is empty.
C17_ExtractNeverThrows ==
  extract.pc = "returned" =>
    /\ ~extract.thrown
    /\ \A b \in 1..Len(extract.blocks) :
         /\ extract.blocks[b].text # << >>
         /\ Trim(extract.blocks[b].text) = extract.blocks[b].text
    /\ (\E b \in 1..Len(extract.blocks) :
          extract.blocks[b].id = <<"fallback-output-text">>)
         => /\ Len(extract.blocks) = 1
            /\ \A i \in 1..Len(extract.result.choices) :
                 /\ extract.result.choices[i].content.k # "string"
                     \/ IsBlank(extract.result.choices[i].content.text)
    /\ Len(extract.blocks) <= Len(extract.result.choices) * MaxContent + 1

\* C18: the output mime type of a compression is image/webp iff the source
\* type is image/png or image/webp, and image/jpeg otherwise; the canvas is
\* painted white before the image is drawn exactly when the target is
\* image/jpeg.
C18_FormatPolicy ==
  \A out \in {compress.job, compress.compressedResult} :
    out.ops # << >> =>
      LET source == IF out = compress.job THEN out.file ELSE out.source
          target == IF out = compress.job THEN out.target ELSE out.mimeType
      IN /\ target \in {"image/webp", "image/jpeg"}
         /\ target = "image/webp" <=> source \in {"image/png", "image/webp"}
         /\ out.ops[Len(out.ops)] = "drawImage"
         /\ (Len(out.ops) = 2 /\ out.ops[1] = "fillRect #ffffff")
              <=> target = "image/jpeg"
         /\ Len(out.ops) = 1 <=> target = "image/webp"

\* C18 witness: a WebP source has been compressed to WebP without a white
\* background.
C18_Witness ==
  /\ compress.pc = "page"
  /\ compress.compressedResult.source = "image/webp"
  /\ compress.compressedResult.mimeType = "image/webp"
  /\ compress.compressedResult.ops = <<"drawImage">>

\* The step ends an activation of handleCompress with a failure.
FailedStep(op) ==
  /\ compress.pc = "page"
  /\ compress.job.pc # "idle"
  /\ compress'.job.pc = "idle"
  /\ compress'.lastOp = op

\* C19: a compression that fails at the decode step or at the encode step
\* leaves an error message on the page, a different one for each of the two
\* steps, and leaves the result shown as it was: the failed attempt makes no
\* result available.
C19_FailureReported ==
  [][ /\ FailedStep("decodeFailed") =>
           /\ compress'.error = DecodeError
           /\ compress'.compressedResult = compress.compressedResult
           /\ ~compress'.isCompressing
      /\ FailedStep("encodeFailed") =>
           /\ compress'.error = EncodeError
           /\ compress'.error # DecodeError
           /\ compress'.compressedResult = compress.compressedResult
           /\ ~compress'.isCompressing ]_vars

\* C19 witness: the encode step has just failed on a file that had been
\* compressed before; the error is shown next to the earlier result.
C19_Witness ==
  /\ compress.pc = "page"
  /\ compress.lastOp = "encodeFailed"
  /\ compress.error = EncodeError
  /\ compress.compressedResult # NoResult
  /\ compress.compressedResult.source = compress.file

\* C21: the ids of the items in the queue are pairwise distinct, however
\* many enqueue operations there were, with several files in one enqueue and
\* several enqueues at the same clock value.
C21_IdsDistinct ==
  \A i \in 1..Len(queue) : \A j \in 1..Len(queue) :
    i # j => queue[i].id # queue[j].id

\* C22: if every external call eventually resolves, a started batch run
\* eventually completes: the processing flag is false again and no item of
\* the queue is in status Processing, whatever was removed or added
\* meanwhile.
C22_RunCompletes ==
  isProcessing ~>
    (/\ ~isProcessing
     /\ \A r \in RunIds : runs[r] = Idle
     /\ \A i \in 1..Len(queue) : queue[i].status # "processing")

\* C22 witness: a run over two items has ended although one work-set item
\* was removed and the queue holds an item again.
C22_Witness ==
  /\ RunEnded
  /\ ~isProcessing
  /\ Len(runCalls) = 2
  /\ \E id \in Range(WorkIds) : id \notin Ids(queue)
  /\ queue # << >>
  /\ \A i \in 1..Len(queue) : queue[i].status # "processing"

\* C23: when the call of an item that is no longer in the queue (removed, or
\* the queue cleared, while the call was in flight) completes, the queue
\* keeps its items: the item is not re-inserted and no item changes, except
\* that the run goes on: the next work-set item, if it is in the queue,
\* becomes Processing and gets its call, and after the last item the run
\* ends.
C23_LateCompletionNoOp ==
  [][ \A id \in 1..MaxItems :
        (outcome[id] = "none" /\ outcome'[id] # "none" /\ id \notin Ids(queue)) =>
          \A r \in RunIds :
            (runs[r].pc # "idle" /\ runs[r].work[runs[r].i].id = id) =>
              LET act == runs[r]
                  last == act.i = Len(act.work)
              IN /\ Len(queue') = Len(queue)
                 /\ id \notin Ids(queue')
                 /\ \A k \in 1..Len(queue) :
                      \/ queue'[k] = queue[k]
                      \/ /\ ~last
                         /\ queue[k].id = act.work[act.i + 1].id
                         /\ queue'[k] = [queue[k] EXCEPT !.status = "processing",
                                                         !.error = Undefined]
                 /\ IF last
                    THEN runs'[r] = Idle /\ ~isProcessing' /\ runCalls' = runCalls
                    ELSE /\ runs'[r].pc = "fetch"
                         /\ runs'[r].i = act.i + 1
                         /\ runCalls' = Append(runCalls, act.work[act.i + 1].id)
                         /\ isProcessing' ]_vars

\* C23 witness: the call of the removed first item has just succeeded; the
\* item is not back, and the second item is Processing.
C23_Witness ==
  /\ lastOp.op = "body"
  /\ outcome[1] = "2xx"
  /\ 1 \notin Ids(queue)
  /\ Len(queue) = 1
  /\ queue[1].id = 2
  /\ queue[1].status = "processing"
  /\ runCalls = <<1, 2>>

\* Ids of the items that were in the queue when the last run was invoked.
StartIds == {startStatus[i].id : i \in 1..Len(startStatus)}

\* C24: the work set of a run is fixed at invocation: an item enqueued after
\* the invocation gets no call from that run, is Pending while the run goes
\* on and when it ends, and stays so until a later run is invoked.
C24_WorkSetFixed ==
  startStatus # << >> =>
    \A k \in 1..Len(queue) :
      queue[k].id \notin StartIds =>
        /\ queue[k].status = "pending"
        /\ queue[k].id \notin Range(runCalls)
        /\ outcome[queue[k].id] = "none"
        /\ \A c \in Range(inflight) : c.id # queue[k].id

\* C24 witness: the run over the first item has just ended with its last
\* settle step; the item enqueued meanwhile is Pending and was not called.
C24_Witness ==
  /\ RunEnded
  /\ lastOp.op \in {"fetch", "body"}
  /\ StartIds = {1}
  /\ runCalls = <<1>>
  /\ Len(queue) = 2
  /\ queue[2].id = 2
  /\ queue[2].status = "pending"

\* C25: a generation request makes at most two provider calls; there is no
\* second call when the first one succeeded, used b64_json, or failed
\* neither with 404 nor with the 'closed' message; when the retry's response
\* is a failure too, the route answers with the retry's status and error;
\* a request with an empty prompt makes no provider call.
C25_AtMostOneRetry ==
  route.name = "generate" =>
    /\ Len(route.calls) <= 2
    /\ Len(route.results) <= Len(route.calls)
    /\ (/\ Len(route.results) >= 1
        /\ \/ route.results[1].status \in 200..299
           \/ route.calls[1].format = "b64_json"
           \/ /\ route.results[1].status # 404
              /\ ReportedMessage(route.results[1].body)
                   \notin {ClosedMessage, ClosedMessageLower})
         => Len(route.calls) = 1
    /\ (Len(route.results) = 2 /\ route.results[2].status \notin 200..299)
         => /\ route.pc = "done"
            /\ route.resp.status = route.results[2].status
            /\ route.resp.error =
                 IF ReportedMessage(route.results[2].body) \in {Undefined, ""}
                 THEN GenerateFailed
                 ELSE ReportedMessage(route.results[2].body)
            /\ route.resp.images = << >>
    /\ (route.req.kind # "json" \/ route.req.prompt.t # "string"
          \/ IsBlank(route.req.prompt.v))
         => route.calls = << >>

\* C25 witness: the first call failed with 404, the retry failed with 500
\* and a message of its own, and the route has answered with those.
C25_Witness ==
  /\ route.name = "generate"
  /\ route.pc = "done"
  /\ Len(route.calls) = 2
  /\ Len(route.results) = 2
  /\ route.results[1].status = 404
  /\ route.results[2].status = 500
  /\ route.results[2].body.errorMessage = OtherMessage
  /\ route.resp.status = 500
  /\ route.resp.error = OtherMessage

\* C25 witness of the other cases: a first call that failed with 500 and a
\* message that does not match was the only call of its request.
C25_WitnessNoRetry ==
  /\ route.name = "generate"
  /\ route.pc = "done"
  /\ Len(route.calls) = 1
  /\ route.calls[1].format = "url"
  /\ Len(route.results) = 1
  /\ route.results[1].status = 500
  /\ route.results[1].body.errorMessage = OtherMessage

\* C26: on the compress page, a compression result that is shown was made
\* from the file that is selected now.
C26_ResultOfSelectedFile ==
  (compress.pc = "page" /\ compress.compressedResult # NoResult)
    => compress.compressedResult.source = compress.file

\* C27: on the identify page, a recognition result that is shown belongs to
\* the file that is selected now.
C27_ResultOfSelectedFile ==
  (identify.pc = "page" /\ identify.result # NoRecognition)
    => identify.result = identify.file

\* The number of queue items with status Processing (processingCount).
processingCount == Cardinality({i \in 1..Len(queue) : queue[i].status = "processing"})

\* C28: at most one queue item is Processing, and none is while the
\* processing flag is false.
C28_OneProcessing ==
  /\ processingCount <= 1
  /\ ~isProcessing => processingCount = 0

\* C28 witness: a run is at its second item, which is Processing next to the
\* first one, already settled.
C28_Witness ==
  /\ isProcessing
  /\ Len(queue) = 2
  /\ queue[1].status \in {"success", "error"}
  /\ queue[2].status = "processing"
  /\ runCalls = <<queue[1].id, queue[2].id>>

\* C29: every external call of a run carries the trimmed credential of the
\* moment the run was invoked; a change of the credential field while the
\* run is in progress changes neither the calls in flight, nor the run's
\* position, nor the queue, nor the processing flag.
C29_CredentialOfInvocation ==
  /\ [](\A k \in 1..Len(inflight) : inflight[k].apiKey = Trim(startApiKey))
  /\ [][(isProcessing /\ apiKey' # apiKey)
          => /\ UNCHANGED <<runs, inflight, queue, isProcessing, runCalls>>
             /\ startApiKey' = startApiKey]_vars

\* C29 witness: the run was invoked with " k", the field was changed to "j"
\* during the first call, and the second call is in flight with "k".
C29_Witness ==
  /\ isProcessing
  /\ startApiKey = <<" ", "k">>
  /\ apiKey = <<"j">>
  /\ Len(runCalls) = 2
  /\ Len(inflight) = 1
  /\ inflight[1].id = runCalls[2]
  /\ inflight[1].apiKey = <<"k">>

\* The index fields present in a provider payload are pairwise distinct.
IndexesDistinct(items) ==
  \A i \in 1..Len(items) : \A j \in 1..Len(items) :
    (i # j /\ items[i].index # NoIndex) => items[i].index # items[j].index

\* C30: the images of a 200 response of the generation route are, in
\* provider order, one per provider item with a url or a b64_json payload
\* (the url taking precedence), and their ids are pairwise distinct, also
\* when only some of the items carry an index field.
C30_ImagesInOrderDistinctIds ==
  (/\ route.name = "generate"
   /\ route.pc = "done"
   /\ route.resp.status = 200
   /\ IndexesDistinct(route.results[Len(route.results)].body.data))
  => LET items == Built(route.results[Len(route.results)].body)
         images == route.resp.images
     IN /\ Len(images) = Len(items)
        /\ \A k \in 1..Len(items) :
             IF items[k].url \notin {Undefined, ""}
             THEN images[k].url = <<items[k].url>>
             ELSE images[k].url[Len(images[k].url)] = items[k].b64_json
        /\ \A i \in 1..Len(images) : \A j \in 1..Len(images) :
             i # j => images[i].id # images[j].id

====
